---- MODULE Spec2Model ----
(***************************************************************************)
(* Model of src/main.py: the RunPod job handler that validates a job,      *)
(* probes the ComfyUI server, mutates the workflow template, queues it,    *)
(* polls the history endpoint and uploads the produced image.              *)
(*                                                                         *)
(* One behaviour is one invocation of handler(job).  Python values are     *)
(* modelled as records; every external call (HTTP GET/POST, file open,     *)
(* Path.exists, HfApi.upload_file) is a nondeterministic choice over the   *)
(* outcomes the call can produce.                                          *)
(***************************************************************************)
EXTENDS Integers, Sequences, FiniteSets, TLC

\* ---------------------------------------------------------------- constants
COMFY_API_MAX_ATTEMPTS == 100
COMFY_API_MAX_DELAY == 5
HF_REPO_UPLOAD == "notkenski/inferences"
COMFY_OUTPUT_PATH == <<"comfyui", "output">>
COMFY_API_HOST == "127.0.0.1:8188"

\* ------------------------------------------------------------------- bounds
\* noise_seed values a job may carry: 1..MaxSeed
MaxSeed == 2

Seeds == 1..MaxSeed

\* attempts budgets check_server is called with on its own: 0..MaxProbeAttempts
MaxProbeAttempts == 4

\* outputs mappings given to process_output_images on its own: 1..MaxNodes
\* nodes, each without an images list or with 0..MaxImages image entries
MaxNodes == 2
MaxImages == 2

\* ------------------------------------------------------------ python values
\* A dict is a function whose DOMAIN is its key set.
EmptyDict == [k \in {} |-> ""]

\* hyperparams as found in the job input: the key may be absent from the
\* input, be null, or be a mapping that has or lacks "noise_seed".
HyperparamValues ==
    [p : {"absent", "null"}, has_seed : {FALSE}, noise_seed : {0}]
    \cup [p : {"dict"}, has_seed : {FALSE}, noise_seed : {0}]
    \cup [p : {"dict"}, has_seed : {TRUE}, noise_seed : Seeds]

\* hf_lora as found in the job input.
LoraValues == {"absent", "null", "lora"}

\* job['input'].  type "dict" is an already parsed mapping, "str" a string,
\* "none" is None, "other" any other python value (number, list).
\* For a string, wellformed says whether the text is JSON at all and json
\* is the type of the value the text denotes ("map" an object, "scalar" a
\* number, string, list or null).
JobInputs ==
    [type : {"none", "other"}, wellformed : {FALSE}, json : {"scalar"},
     hf_lora : {"absent"}, hyperparams : {[p |-> "absent", has_seed |-> FALSE, noise_seed |-> 0]}]
    \cup [type : {"str"}, wellformed : BOOLEAN, json : {"scalar"},
          hf_lora : {"absent"}, hyperparams : {[p |-> "absent", has_seed |-> FALSE, noise_seed |-> 0]}]
    \cup [type : {"str"}, wellformed : BOOLEAN, json : {"map"},
          hf_lora : LoraValues, hyperparams : HyperparamValues]
    \cup [type : {"dict"}, wellformed : {FALSE}, json : {"map"},
          hf_lora : LoraValues, hyperparams : HyperparamValues]

\* A workflow document: node id -> inputs -> value.
WorkflowDocument(seedNode, seedInputs) ==
    [n \in {"6"} \cup seedNode |->
        IF n = "6" THEN [inputs |-> [f \in {"steps"} |-> 20]]
        ELSE [inputs |-> [f \in {"cfg"} \cup seedInputs |-> IF f = "cfg" THEN 8 ELSE 42]]]

\* workflows/example_workflow-api.json as it may be on disk: unreadable,
\* lacking node "25", lacking the noise_seed input, or complete.
TemplateFiles ==
    { [readable |-> FALSE, doc |-> WorkflowDocument({}, {})],
      [readable |-> TRUE,  doc |-> WorkflowDocument({}, {})],
      [readable |-> TRUE,  doc |-> WorkflowDocument({"25"}, {})],
      [readable |-> TRUE,  doc |-> WorkflowDocument({"25"}, {"noise_seed"})] }

PromptIds == {"abc", "xyz"}

\* ---------------------------------------------------------------- validator
ValidatorReturn(d, e) == [raised |-> "", data |-> d, error |-> e]
ValidatorRaise(x) == [raised |-> x, data |-> EmptyDict, error |-> ""]

\* json.loads on a string job input (lines 179-182): the denoted value, or
\* JSONDecodeError when the text is not JSON.
json_loads(s) ==
    IF s.wellformed
    THEN [raised |-> "", value |-> [s EXCEPT !.type = IF s.json = "map" THEN "dict" ELSE "other"]]
    ELSE [raised |-> "JSONDecodeError", value |-> s]

\* job_input[key] (lines 185-186): TypeError on a non-mapping, KeyError on a
\* missing key.
Subscript(obj, key) ==
    IF obj.type # "dict" THEN "TypeError"
    ELSE IF key = "hf_lora" /\ obj.hf_lora = "absent" THEN "KeyError"
    ELSE IF key = "hyperparams" /\ obj.hyperparams.p = "absent" THEN "KeyError"
    ELSE ""

validate_job_input(job_input) ==
    IF job_input.type = "none"
    THEN ValidatorReturn(EmptyDict, "Job input is not provided.")
    ELSE
      LET parsed == IF job_input.type = "str" THEN json_loads(job_input)
                    ELSE [raised |-> "", value |-> job_input]
          obj == parsed.value
      IN IF parsed.raised = "JSONDecodeError"
         THEN ValidatorReturn(EmptyDict, "Job input is not valid JSON.")
         ELSE IF Subscript(obj, "hf_lora") # ""
         THEN ValidatorRaise(Subscript(obj, "hf_lora"))
         ELSE IF Subscript(obj, "hyperparams") # ""
         THEN ValidatorRaise(Subscript(obj, "hyperparams"))
         ELSE IF obj.hf_lora = "null" \/ obj.hyperparams.p = "null"
         THEN ValidatorReturn(EmptyDict,
                  "Need to provide both hf_lora and hyperparams in the request.")
         ELSE ValidatorReturn([hf_lora |-> obj.hf_lora, hyperparams |-> obj.hyperparams], "")

\* -------------------------------------------------------------------- state
VARIABLES
    job,                \* the job handed to handler (job['input'])
    template_file,      \* the workflow template on disk
    pc,                 \* position of handler
    validated_data,     \* handler local (line 200)
    cs,                 \* frame of the check_server call
    modified_workflow,  \* handler local (line 220)
    prompt_id,          \* handler local (line 224)
    current_retry,      \* handler local (line 232)
    history,            \* handler local (line 236)
    proc,               \* frame of the process_output_images call
    outcome,            \* what handler has returned or raised
    calls,              \* external calls made so far by this invocation
    inv,                \* the locals of each of several concurrent invocations
    server              \* the prompts the render server has accepted

vars == <<job, template_file, pc, validated_data, cs, modified_workflow,
          prompt_id, current_retry, history, proc, outcome, calls, inv, server>>

\* ------------------------------------------------------------ handler result
Running == [state |-> "running", result |-> EmptyDict, exc |-> ""]
Returned(d) == [state |-> "returned", result |-> d, exc |-> ""]
Raised(x) == [state |-> "raised", result |-> EmptyDict, exc |-> x]

\* a message built by an f-string: the literal text and the interpolated value
Message(text, detail) == <<text, detail>>

\* the worker refresh asked for after a success only
job_results_OnlyOnSuccess(process_results) ==
    IF process_results.status = "success"
    THEN [k \in DOMAIN process_results \cup {"refresh_worker"} |->
             IF k = "refresh_worker" THEN TRUE ELSE process_results[k]]
    ELSE process_results

\* {**process_results, "refresh_worker": True} (lines 251-254)
job_results(process_results) ==
    [k \in DOMAIN process_results \cup {"refresh_worker"} |->
        IF k = "refresh_worker" THEN TRUE ELSE process_results[k]]

\* external calls made so far: probe is 1 once a probe GET was made (the
\* GETs of one check_server call are counted in its frame cs), the other
\* fields count the template loads, mutate_workflow calls, POSTs, history
\* queries, resolutions, Path.exists tests and upload_file calls; probe_ret
\* is what check_server returned, post_exc, history_exc and upload_exc the
\* exception of the last POST, history query and upload ("" when none)
NoCalls == [probe |-> 0, load |-> 0, mutate |-> 0, post |-> 0, history |-> 0,
            resolve |-> 0, exists |-> 0, upload |-> 0,
            posted |-> <<>>, queried |-> {}, uploaded |-> <<>>, upload_exc |-> "",
            probe_ret |-> "none", post_exc |-> "", history_exc |-> ""]

\* ------------------------------------------------------------- check_server
\* the frame of a check_server call: its arguments, the loop index, the GETs
\* and sleeps it has made, the last response and the value returned; handler
\* drops it when it goes on to line 220
NoFrame == [active |-> FALSE, url |-> "", attempts |-> 0, delay |-> 0, i |-> 0,
            gets |-> 0, sleeps |-> 0, server_res |-> [exc |-> "", status_code |-> 0],
            ret |-> "none"]

\* check_server(url, attempts, delay) entered (line 139, i = 0)
CheckServerFrame(url, attempts, delay) ==
    [NoFrame EXCEPT !.active = TRUE, !.url = url, !.attempts = attempts, !.delay = delay]

\* what requests.get(url) can produce: a response with a status code, or a
\* requests.RequestException (connection refused, timeout)
GetOutcomes ==
    [exc : {""}, status_code : {200, 404, 503}]
    \cup [exc : {"RequestException"}, status_code : {0}]

\* line 146
IsLive(server_res) == server_res.exc = "" /\ server_res.status_code = 200

\* the loop bound of check_server off by one
ProbeLoopContinues_OffByOne(frame) == frame.i <= frame.attempts

\* line 139: the range(attempts) loop has another iteration
ProbeLoopContinues(frame) == frame.i < frame.attempts

\* one iteration of the loop of check_server (lines 139-154)
CheckServerIteration(frame, res) ==
    IF IsLive(res)
    THEN [frame EXCEPT !.gets = @ + 1, !.server_res = res, !.ret = "True"]
    ELSE [frame EXCEPT !.gets = @ + 1, !.server_res = res, !.sleeps = @ + 1, !.i = @ + 1]

\* ---------------------------------------------------------- mutate_workflow
\* the mutator replacing the inputs of node "25" by the seed alone
mutate_workflow_RebuildsInputs(hyperparams, file) ==
    IF ~file.readable
    THEN [raised |-> "FileNotFoundError", workflow |-> file.doc]
    ELSE IF "25" \notin DOMAIN file.doc
            \/ "noise_seed" \notin DOMAIN file.doc["25"].inputs
    THEN [raised |-> "KeyError", workflow |-> file.doc]
    ELSE IF ~hyperparams.has_seed
    THEN [raised |-> "KeyError", workflow |-> file.doc]
    ELSE [raised |-> "",
          workflow |-> [file.doc EXCEPT !["25"].inputs = [noise_seed |-> hyperparams.noise_seed]]]

\* mutate_workflow(hyperparams, lora) against the template on disk: the
\* exception it raises ("" when none) and the document it returns.
mutate_workflow(hyperparams, file) ==
    IF ~file.readable
    THEN [raised |-> "FileNotFoundError", workflow |-> file.doc]
    ELSE IF "25" \notin DOMAIN file.doc
            \/ "noise_seed" \notin DOMAIN file.doc["25"].inputs
    THEN [raised |-> "KeyError", workflow |-> file.doc]
    ELSE IF ~hyperparams.has_seed
    THEN [raised |-> "KeyError", workflow |-> file.doc]
    ELSE [raised |-> "",
          workflow |-> [file.doc EXCEPT !["25"].inputs.noise_seed = hyperparams.noise_seed]]

\* ----------------------------------------------------------- queue_workflow
\* what the POST to /prompt can produce: a transport failure, a body that
\* is not JSON, a JSON value that is not a mapping, a mapping without
\* "prompt_id", or a mapping with it.
PostOutcomes ==
    [exc : {"ConnectionError", "JSONDecodeError", "TypeError", "KeyError"}, prompt_id : {"none"}]
    \cup [exc : {""}, prompt_id : PromptIds]

\* ------------------------------------------------------ get_history, outputs
Image(sf, fn) == [subfolder |-> sf, filename |-> fn]
NodeOutput(id, has_images, images) == [node_id |-> id, has_images |-> has_images, images |-> images]

\* the value of history[prompt_id].get("outputs"): None when the key is
\* absent, else the node outputs in enumeration order
NoOutputs == [present |-> FALSE, nodes |-> <<>>]
Outputs(nodes) == [present |-> TRUE, nodes |-> nodes]

OutputsSamples ==
    { NoOutputs,
      Outputs(<<>>),
      Outputs(<<NodeOutput("9", FALSE, <<>>)>>),
      Outputs(<<NodeOutput("9", TRUE, <<>>)>>),
      Outputs(<<NodeOutput("9", TRUE, <<Image("", "img1.png")>>)>>),
      Outputs(<<NodeOutput("9", TRUE, <<Image("", "img1.png"), Image("sub", "img2.png")>>)>>),
      Outputs(<<NodeOutput("9", TRUE, <<Image("sub", "img2.png")>>),
                NodeOutput("12", TRUE, <<Image("", "img1.png")>>)>>) }

\* what get_history(prompt_id) can produce: an exception (transport failure,
\* body not JSON), or a mapping that is empty (id "none") or has one key
NoHistory == [exc |-> "", id |-> "none", outputs |-> NoOutputs]
HistoryOutcomes ==
    [exc : {"RequestException", "JSONDecodeError"}, id : {"none"}, outputs : {NoOutputs}]
    \cup {NoHistory}
    \cup [exc : {""}, id : PromptIds, outputs : OutputsSamples]

\* truthiness of history[prompt_id].get("outputs")
Truthy(outputs) == outputs.present /\ outputs.nodes # <<>>

\* the readiness test without the emptiness check on outputs
OutputsReady_IgnoresEmpty(pid, h) == h.id = pid /\ h.outputs.present

\* line 238
OutputsReady(pid, h) == h.id = pid /\ Truthy(h.outputs)

\* the polling loop bound off by one
PollLoopContinues_OffByOne(retry) == retry <= COMFY_API_MAX_ATTEMPTS

\* line 235
PollLoopContinues(retry) == retry < COMFY_API_MAX_ATTEMPTS

\* ---------------------------------------------------- process_output_images
\* Path(a) / b on relative parts; the empty string contributes no part
PathOf(str) == IF str = "" THEN <<>> ELSE <<str>>

\* the scan of one images list keeping its first entry
ScanImages_KeepsFirst(images, acc) ==
    IF images = <<>> THEN acc
    ELSE PathOf(Head(images).subfolder) \o PathOf(Head(images).filename)

RECURSIVE ScanImages(_, _)
\* lines 63-64
ScanImages(images, acc) ==
    IF images = <<>> THEN acc
    ELSE ScanImages(Tail(images), PathOf(Head(images).subfolder) \o PathOf(Head(images).filename))

RECURSIVE ScanNodes(_, _)
\* lines 59-64
ScanNodes(nodes, acc) ==
    IF nodes = <<>> THEN acc
    ELSE ScanNodes(Tail(nodes),
                   IF Head(nodes).has_images THEN ScanImages(Head(nodes).images, acc) ELSE acc)

\* lines 57-66
output_images(outputs) == ScanNodes(outputs.nodes, PathOf(""))
local_images_path(outputs) == COMFY_OUTPUT_PATH \o output_images(outputs)

\* Path.name
PathName(path) == path[Len(path)]

\* the upload keyed by the path relative to the working directory
UploadCall_KeyedByPath(path) ==
    [path_or_fileobj |-> path, path_in_repo |-> path[1], repo_id |-> HF_REPO_UPLOAD]

\* arguments of hf_api.upload_file (lines 71-75)
UploadCall(path) ==
    [path_or_fileobj |-> path, path_in_repo |-> PathName(path), repo_id |-> HF_REPO_UPLOAD]

NoProc == [active |-> FALSE, outputs |-> NoOutputs, local_images_path |-> <<>>, exists |-> FALSE]

\* no concurrent invocation: a single handler runs in job, pc, ...
NoInvocations == [p \in {} |-> EmptyDict]

\* --------------------------------------------------------------------- Init
Init ==
    /\ job \in JobInputs
    /\ template_file \in TemplateFiles
    /\ pc = "validate"
    /\ validated_data = EmptyDict
    /\ cs = NoFrame
    /\ modified_workflow = EmptyDict
    /\ prompt_id = "none"
    /\ current_retry = 0
    /\ history = NoHistory
    /\ proc = NoProc
    /\ outcome = Running
    /\ calls = NoCalls
    /\ inv = NoInvocations
    /\ server = <<>>

\* ------------------------------------------------------------------ actions
\* handler lines 196-212: validate the input, return or raise on failure,
\* otherwise enter check_server
HandlerValidate ==
    /\ pc = "validate"
    /\ LET v == validate_job_input(job) IN
         IF v.raised # ""
         THEN /\ outcome' = Raised(v.raised)
              /\ pc' = "done"
              /\ UNCHANGED <<validated_data, cs>>
         ELSE IF v.error # ""
         THEN /\ outcome' = Returned([error |-> v.error])
              /\ pc' = "done"
              /\ UNCHANGED <<validated_data, cs>>
         ELSE /\ validated_data' = v.data
              /\ cs' = CheckServerFrame(COMFY_API_HOST, COMFY_API_MAX_ATTEMPTS, COMFY_API_MAX_DELAY)
              /\ pc' = "check_server"
              /\ UNCHANGED outcome
    /\ UNCHANGED <<inv, server>>
    /\ UNCHANGED <<job, template_file, modified_workflow, prompt_id, current_retry,
                   history, proc, calls>>

\* check_server lines 139-154: one GET; return True on status 200, else
\* sleep and go to the next attempt
CheckServerAttempt ==
    /\ pc = "check_server"
    /\ ProbeLoopContinues(cs)
    /\ \E res \in GetOutcomes :
         /\ cs' = CheckServerIteration(cs, res)
         /\ pc' = IF CheckServerIteration(cs, res).ret = "True" THEN "mutate" ELSE "check_server"
    /\ calls' = [calls EXCEPT !.probe = 1, !.probe_ret = cs'.ret]
    /\ UNCHANGED <<inv, server>>
    /\ UNCHANGED <<job, template_file, validated_data, modified_workflow, prompt_id,
                   current_retry, history, proc, outcome>>

\* check_server lines 156-158: the attempts are used up, return False
CheckServerExhausted ==
    /\ pc = "check_server"
    /\ ~ProbeLoopContinues(cs)
    /\ cs' = [cs EXCEPT !.ret = "False"]
    /\ calls' = [calls EXCEPT !.probe_ret = "False"]
    /\ pc' = "mutate"
    /\ UNCHANGED <<inv, server>>
    /\ UNCHANGED <<job, template_file, validated_data, modified_workflow, prompt_id,
                   current_retry, history, proc, outcome>>

\* the handler giving up when check_server returned False
HandlerMutate_GatedByProbe ==
    /\ pc = "mutate"
    /\ cs' = NoFrame
    /\ LET m == mutate_workflow(validated_data.hyperparams, template_file) IN
         IF cs.ret = "False"
         THEN /\ outcome' = Returned([status |-> "error",
                                      message |-> Message("ComfyUI server is not reachable.", "")])
              /\ pc' = "done"
              /\ UNCHANGED <<modified_workflow, calls>>
         ELSE /\ calls' = [calls EXCEPT !.load = @ + 1, !.mutate = @ + 1]
              /\ IF m.raised # ""
                 THEN /\ outcome' = Raised(m.raised)
                      /\ pc' = "done"
                      /\ UNCHANGED modified_workflow
                 ELSE /\ modified_workflow' = m.workflow
                      /\ pc' = "queue"
                      /\ UNCHANGED outcome
    /\ UNCHANGED <<inv, server>>
    /\ UNCHANGED <<job, template_file, validated_data, prompt_id, current_retry,
                   history, proc>>

\* handler line 220: the return value of check_server is dropped and
\* mutate_workflow runs; its exceptions are not caught
HandlerMutate ==
    /\ pc = "mutate"
    /\ cs' = NoFrame
    /\ calls' = [calls EXCEPT !.load = @ + 1, !.mutate = @ + 1]
    /\ LET m == mutate_workflow(validated_data.hyperparams, template_file) IN
         IF m.raised # ""
         THEN /\ outcome' = Raised(m.raised)
              /\ pc' = "done"
              /\ UNCHANGED modified_workflow
         ELSE /\ modified_workflow' = m.workflow
              /\ pc' = "queue"
              /\ UNCHANGED outcome
    /\ UNCHANGED <<inv, server>>
    /\ UNCHANGED <<job, template_file, validated_data, prompt_id, current_retry,
                   history, proc>>

\* the submission going on to poll after a failed POST
HandlerQueue_PollsAfterFailure ==
    /\ pc = "queue"
    /\ \E res \in PostOutcomes :
         /\ calls' = [calls EXCEPT !.post = @ + 1,
                                    !.posted = Append(@, [prompt |-> modified_workflow]),
                                    !.post_exc = res.exc]
         /\ /\ prompt_id' = res.prompt_id
            /\ current_retry' = 0
            /\ pc' = "poll"
            /\ outcome' = IF res.exc # ""
                          THEN Returned([status |-> "error",
                                         message |-> Message("Error queuing workflow: ", res.exc)])
                          ELSE outcome
    /\ UNCHANGED <<inv, server>>
    /\ UNCHANGED <<job, template_file, validated_data, cs, modified_workflow, history, proc>>

\* the submission repeating the POST after a failed one
HandlerQueue_Resubmits ==
    /\ pc = "queue"
    /\ \E res \in PostOutcomes :
         /\ calls' = [calls EXCEPT !.post = @ + 1,
                                    !.posted = Append(@, [prompt |-> modified_workflow]),
                                    !.post_exc = res.exc]
         /\ IF res.exc # "" /\ calls.post = 0
            THEN pc' = "queue" /\ UNCHANGED <<prompt_id, current_retry, outcome>>
            ELSE IF res.exc # ""
            THEN /\ outcome' = Returned([status |-> "error",
                                         message |-> Message("Error queuing workflow: ", res.exc)])
                 /\ pc' = "done"
                 /\ UNCHANGED <<prompt_id, current_retry>>
            ELSE /\ prompt_id' = res.prompt_id
                 /\ current_retry' = 0
                 /\ pc' = "poll"
                 /\ UNCHANGED outcome
    /\ UNCHANGED <<inv, server>>
    /\ UNCHANGED <<job, template_file, validated_data, cs, modified_workflow, history, proc>>

\* handler lines 222-232: POST the workflow once; any exception becomes an
\* error result
HandlerQueue ==
    /\ pc = "queue"
    /\ \E res \in PostOutcomes :
         /\ calls' = [calls EXCEPT !.post = @ + 1,
                                    !.posted = Append(@, [prompt |-> modified_workflow]),
                                    !.post_exc = res.exc]
         /\ IF res.exc # ""
            THEN /\ outcome' = Returned([status |-> "error",
                                         message |-> Message("Error queuing workflow: ", res.exc)])
                 /\ pc' = "done"
                 /\ UNCHANGED <<prompt_id, current_retry>>
            ELSE /\ prompt_id' = res.prompt_id
                 /\ current_retry' = 0
                 /\ pc' = "poll"
                 /\ UNCHANGED outcome
    /\ UNCHANGED <<inv, server>>
    /\ UNCHANGED <<job, template_file, validated_data, cs, modified_workflow, history, proc>>

\* the polling loop counting a raising query as one more unsuccessful attempt
HandlerPoll_RetriesOnError ==
    /\ pc = "poll"
    /\ PollLoopContinues(current_retry)
    /\ \E res \in HistoryOutcomes :
         /\ calls' = [calls EXCEPT !.history = @ + 1, !.queried = @ \cup {prompt_id},
                                    !.history_exc = res.exc]
         /\ history' = IF res.exc # "" THEN history ELSE res
         /\ IF res.exc = "" /\ OutputsReady(prompt_id, res)
            THEN pc' = "process" /\ UNCHANGED current_retry
            ELSE pc' = "poll" /\ current_retry' = current_retry + 1
         /\ UNCHANGED outcome
    /\ UNCHANGED <<inv, server>>
    /\ UNCHANGED <<job, template_file, validated_data, cs, modified_workflow, prompt_id, proc>>

\* handler lines 235-242, 246-247: one history query
HandlerPoll ==
    /\ pc = "poll"
    /\ PollLoopContinues(current_retry)
    /\ \E res \in HistoryOutcomes :
         /\ calls' = [calls EXCEPT !.history = @ + 1, !.queried = @ \cup {prompt_id},
                                    !.history_exc = res.exc]
         /\ IF res.exc # ""
            THEN /\ outcome' = Returned([status |-> "error",
                                         message |-> Message("Error waiting for image generation: ", res.exc)])
                 /\ pc' = "done"
                 /\ UNCHANGED <<history, current_retry>>
            ELSE /\ history' = res
                 /\ IF OutputsReady(prompt_id, res)
                    THEN pc' = "process" /\ UNCHANGED current_retry
                    ELSE pc' = "poll" /\ current_retry' = current_retry + 1
                 /\ UNCHANGED outcome
    /\ UNCHANGED <<inv, server>>
    /\ UNCHANGED <<job, template_file, validated_data, cs, modified_workflow, prompt_id, proc>>

\* handler lines 244-245: the while loop ends without break
HandlerPollExhausted ==
    /\ pc = "poll"
    /\ ~PollLoopContinues(current_retry)
    /\ outcome' = Returned([status |-> "error",
                            message |-> Message("Exceeded the maximum number of retries.", "")])
    /\ pc' = "done"
    /\ UNCHANGED <<inv, server>>
    /\ UNCHANGED <<job, template_file, validated_data, cs, modified_workflow, prompt_id,
                   current_retry, history, proc, calls>>

\* the resolver going on to the upload whatever Path.exists answers
ProcessResolve_IgnoresExists ==
    /\ pc = "process"
    /\ calls' = [calls EXCEPT !.resolve = @ + 1, !.exists = @ + 1]
    /\ \E exists \in BOOLEAN :
         proc' = [active |-> TRUE, outputs |-> history.outputs,
                  local_images_path |-> local_images_path(history.outputs),
                  exists |-> exists]
    /\ pc' = "upload"
    /\ UNCHANGED <<inv, server>>
    /\ UNCHANGED <<job, template_file, validated_data, cs, modified_workflow, prompt_id,
                   current_retry, history, outcome>>

\* handler line 249 and process_output_images lines 57-69, 82-84: pick the
\* image path and test that it exists
ProcessResolve ==
    /\ pc = "process"
    /\ calls' = [calls EXCEPT !.resolve = @ + 1, !.exists = @ + 1]
    /\ \E exists \in BOOLEAN :
         /\ proc' = [active |-> TRUE, outputs |-> history.outputs,
                     local_images_path |-> local_images_path(history.outputs),
                     exists |-> exists]
         /\ IF exists
            THEN pc' = "upload" /\ UNCHANGED outcome
            ELSE /\ outcome' = Returned(job_results(
                        [status |-> "error",
                         message |-> Message("The image does not exist in the output folder at: ",
                                             local_images_path(history.outputs))]))
                 /\ pc' = "done"
    /\ UNCHANGED <<inv, server>>
    /\ UNCHANGED <<job, template_file, validated_data, cs, modified_workflow, prompt_id,
                   current_retry, history>>

\* process_output_images lines 70-80 and handler lines 251-256: upload the
\* file and return
ProcessUpload ==
    /\ pc = "upload"
    /\ \E exc \in {"", "HfHubHTTPError"} :
         /\ calls' = [calls EXCEPT !.upload = @ + 1,
                                    !.uploaded = Append(@, UploadCall(proc.local_images_path)),
                                    !.upload_exc = exc]
         /\ outcome' = Returned(job_results(
                IF exc = ""
                THEN [status |-> "success",
                      message |-> Message("Successfully uploaded output to HuggingFace.", "")]
                ELSE [status |-> "error", message |-> Message("Error uploading to HF: ", exc)]))
    /\ pc' = "done"
    /\ UNCHANGED <<inv, server>>
    /\ UNCHANGED <<job, template_file, validated_data, cs, modified_workflow, prompt_id,
                   current_retry, history, proc>>

Next ==
    \/ HandlerValidate
    \/ CheckServerAttempt
    \/ CheckServerExhausted
    \/ HandlerMutate
    \/ HandlerQueue
    \/ HandlerPoll
    \/ HandlerPollExhausted
    \/ ProcessResolve
    \/ ProcessUpload

Spec == Init /\ [][Next]_vars

\* every external call returns or raises and handler's thread keeps running:
\* a step that can be taken is taken
FairSpec == Spec /\ WF_vars(Next)

\* check_server called on its own, with any attempts budget and either the
\* default delay or the configured one
InitCheckServer ==
    /\ job = [type |-> "none", wellformed |-> FALSE, json |-> "scalar", hf_lora |-> "absent",
              hyperparams |-> [p |-> "absent", has_seed |-> FALSE, noise_seed |-> 0]]
    /\ template_file = [readable |-> TRUE, doc |-> WorkflowDocument({"25"}, {"noise_seed"})]
    /\ pc = "check_server"
    /\ validated_data = EmptyDict
    /\ \E attempts \in (0..MaxProbeAttempts) \cup {COMFY_API_MAX_ATTEMPTS}, delay \in {2, COMFY_API_MAX_DELAY} :
         cs = CheckServerFrame(COMFY_API_HOST, attempts, delay)
    /\ modified_workflow = EmptyDict
    /\ prompt_id = "none"
    /\ current_retry = 0
    /\ history = NoHistory
    /\ proc = NoProc
    /\ outcome = Running
    /\ calls = NoCalls
    /\ inv = NoInvocations
    /\ server = <<>>

NextCheckServer ==
    \/ CheckServerAttempt
    \/ CheckServerExhausted

SpecCheckServer == InitCheckServer /\ [][NextCheckServer]_vars

\* process_output_images called on its own by a handler whose poll has just
\* seen the outputs: every outputs mapping of 1..MaxNodes nodes
SeqsUpTo(S, n) == UNION {[1..k -> S] : k \in 0..n}
ImageEntries == {Image("", "img1.png"), Image("sub", "img2.png")}
NodeIdList == <<"9", "12", "15", "20">>
NodeOutputsAll ==
    {[has_images |-> FALSE, images |-> <<>>]}
    \cup {[has_images |-> TRUE, images |-> imgs] : imgs \in SeqsUpTo(ImageEntries, MaxImages)}
AllOutputs ==
    UNION {{Outputs([i \in 1..k |-> NodeOutput(NodeIdList[i], f[i].has_images, f[i].images)]) :
               f \in [1..k -> NodeOutputsAll]} : k \in 1..MaxNodes}

InitResolver ==
    /\ job = [type |-> "dict", wellformed |-> FALSE, json |-> "map", hf_lora |-> "lora",
              hyperparams |-> [p |-> "dict", has_seed |-> TRUE, noise_seed |-> 1]]
    /\ template_file = [readable |-> TRUE, doc |-> WorkflowDocument({"25"}, {"noise_seed"})]
    /\ pc = "process"
    /\ validated_data = validate_job_input(job).data
    /\ cs = NoFrame
    /\ modified_workflow = mutate_workflow(validated_data.hyperparams, template_file).workflow
    /\ prompt_id = "abc"
    /\ current_retry = 0
    /\ \E outputs \in AllOutputs : history = [exc |-> "", id |-> "abc", outputs |-> outputs]
    /\ proc = NoProc
    /\ outcome = Running
    /\ calls = [NoCalls EXCEPT !.probe = 1, !.probe_ret = "True", !.load = 1, !.mutate = 1,
                               !.post = 1, !.posted = <<[prompt |-> modified_workflow]>>,
                               !.history = 1, !.queried = {"abc"}]
    /\ inv = NoInvocations
    /\ server = <<>>

NextResolver ==
    \/ ProcessResolve
    \/ ProcessUpload

SpecResolver == InitResolver /\ [][NextResolver]_vars

\* mutate_workflow called by a handler whose probe has just returned, for a
\* family of templates that have the seed path: any subset of other nodes,
\* any subset of further inputs on node "25", any seed in the file
SeededDocument(otherNodes, otherInputs, seed) ==
    [n \in {"25"} \cup otherNodes |->
        IF n = "25"
        THEN [inputs |-> [f \in {"noise_seed"} \cup otherInputs |->
                             IF f = "noise_seed" THEN seed ELSE 8]]
        ELSE [inputs |-> [f \in {"steps"} |-> 20]]]

SeededTemplates ==
    {[readable |-> TRUE, doc |-> SeededDocument(ns, fs, seed)] :
        ns \in SUBSET {"6", "10"}, fs \in SUBSET {"cfg", "denoise"}, seed \in Seeds \cup {42}}

InitMutate ==
    /\ \E seed \in Seeds :
         job = [type |-> "dict", wellformed |-> FALSE, json |-> "map", hf_lora |-> "lora",
                hyperparams |-> [p |-> "dict", has_seed |-> TRUE, noise_seed |-> seed]]
    /\ template_file \in SeededTemplates
    /\ pc = "mutate"
    /\ validated_data = validate_job_input(job).data
    /\ cs = CheckServerIteration(
              CheckServerFrame(COMFY_API_HOST, COMFY_API_MAX_ATTEMPTS, COMFY_API_MAX_DELAY),
              [exc |-> "", status_code |-> 200])
    /\ modified_workflow = EmptyDict
    /\ prompt_id = "none"
    /\ current_retry = 0
    /\ history = NoHistory
    /\ proc = NoProc
    /\ outcome = Running
    /\ calls = [NoCalls EXCEPT !.probe = 1, !.probe_ret = "True"]
    /\ inv = NoInvocations
    /\ server = <<>>

NextMutate ==
    \/ HandlerMutate

SpecMutate == InitMutate /\ [][NextMutate]_vars

\* ---------------------------------------------- concurrent invocations
\* Two invocations of handler run interleaved in one process.  Each has its
\* own locals (inv[p]); they share the template on disk and the render
\* server.  A local that nothing reads any more is not carried on: the loop
\* index of check_server after it returns, current_retry after the loop.
Jobs == {"A", "B"}

SingleVars == <<job, pc, validated_data, cs, modified_workflow, prompt_id, current_retry,
                history, proc, outcome, calls>>

\* the locals of handler(job) on entry
Invocation(seed) ==
    [job |-> [type |-> "dict", wellformed |-> FALSE, json |-> "map", hf_lora |-> "lora",
              hyperparams |-> [p |-> "dict", has_seed |-> TRUE, noise_seed |-> seed]],
     pc |-> "validate", validated_data |-> EmptyDict, i |-> 0,
     modified_workflow |-> EmptyDict, prompt_id |-> "none", current_retry |-> 0,
     outputs |-> NoOutputs, local_images_path |-> <<>>, outcome |-> Running,
     posted |-> <<>>, queried |-> {}]

InitConcurrent ==
    /\ job = [type |-> "none", wellformed |-> FALSE, json |-> "scalar", hf_lora |-> "absent",
              hyperparams |-> [p |-> "absent", has_seed |-> FALSE, noise_seed |-> 0]]
    /\ template_file = [readable |-> TRUE, doc |-> WorkflowDocument({"25"}, {"noise_seed"})]
    /\ pc = "done"
    /\ validated_data = EmptyDict
    /\ cs = NoFrame
    /\ modified_workflow = EmptyDict
    /\ prompt_id = "none"
    /\ current_retry = 0
    /\ history = NoHistory
    /\ proc = NoProc
    /\ outcome = Running
    /\ calls = NoCalls
    /\ \E seeds \in [Jobs -> Seeds] :
         \* different seeds; A and B are interchangeable and a seed is only
         \* copied, so A has the first seed and B any other
         /\ seeds["A"] = 1
         /\ seeds["B"] # seeds["A"]
         /\ inv = [p \in Jobs |-> Invocation(seeds[p])]
    /\ server = <<>>

\* handler lines 196-212 in invocation p
InvValidate(p) ==
    /\ inv[p].pc = "validate"
    /\ LET v == validate_job_input(inv[p].job) IN
         inv' = [inv EXCEPT ![p] =
                    IF v.raised # "" THEN [@ EXCEPT !.pc = "done", !.outcome = Raised(v.raised)]
                    ELSE IF v.error # ""
                    THEN [@ EXCEPT !.pc = "done", !.outcome = Returned([error |-> v.error])]
                    ELSE [@ EXCEPT !.pc = "check_server", !.validated_data = v.data]]
    /\ UNCHANGED <<template_file, server, SingleVars>>

\* check_server lines 139-154 in invocation p
InvCheckServerAttempt(p) ==
    /\ inv[p].pc = "check_server"
    /\ ProbeLoopContinues([i |-> inv[p].i, attempts |-> COMFY_API_MAX_ATTEMPTS])
    /\ \E live \in {IsLive(res) : res \in GetOutcomes} :
         inv' = [inv EXCEPT ![p] =
                    IF live THEN [@ EXCEPT !.pc = "mutate", !.i = 0]
                    ELSE [@ EXCEPT !.i = @ + 1]]
    /\ UNCHANGED <<template_file, server, SingleVars>>

\* check_server lines 156-158 in invocation p
InvCheckServerExhausted(p) ==
    /\ inv[p].pc = "check_server"
    /\ ~ProbeLoopContinues([i |-> inv[p].i, attempts |-> COMFY_API_MAX_ATTEMPTS])
    /\ inv' = [inv EXCEPT ![p] = [@ EXCEPT !.pc = "mutate", !.i = 0]]
    /\ UNCHANGED <<template_file, server, SingleVars>>

\* the mutator writing the mutated document back to the template file
InvMutate_WritesTemplate(p) ==
    /\ inv[p].pc = "mutate"
    /\ LET m == mutate_workflow(inv[p].validated_data.hyperparams, template_file) IN
         /\ inv' = [inv EXCEPT ![p] =
                       IF m.raised # "" THEN [@ EXCEPT !.pc = "done", !.outcome = Raised(m.raised)]
                       ELSE [@ EXCEPT !.pc = "queue", !.modified_workflow = m.workflow]]
         /\ template_file' = [template_file EXCEPT !.doc = m.workflow]
    /\ UNCHANGED <<server, SingleVars>>

\* handler line 220 in invocation p: the template is read from disk anew
InvMutate(p) ==
    /\ inv[p].pc = "mutate"
    /\ LET m == mutate_workflow(inv[p].validated_data.hyperparams, template_file) IN
         inv' = [inv EXCEPT ![p] =
                    IF m.raised # "" THEN [@ EXCEPT !.pc = "done", !.outcome = Raised(m.raised)]
                    ELSE [@ EXCEPT !.pc = "queue", !.modified_workflow = m.workflow]]
    /\ UNCHANGED <<template_file, server, SingleVars>>

\* the prompt ids the server has handed out
IssuedIds == {server[k].prompt_id : k \in 1..Len(server)}

\* the id the server gives to the next prompt it accepts: one it has not
\* used before (which one does not matter, ids are only compared)
FreshId == CHOOSE id \in PromptIds \ IssuedIds : TRUE

\* what the handler's loop looks at in a history response for prompt id pid:
\* the exception, whether the outputs are there, and the outputs if they are
HistoryAnswer(pid, res) ==
    [exc |-> res.exc, ready |-> res.exc = "" /\ OutputsReady(pid, res),
     outputs |-> IF res.exc = "" /\ OutputsReady(pid, res) THEN res.outputs ELSE NoOutputs]

\* handler lines 222-232 in invocation p: the server answers an accepted
\* prompt with an id it has not used before
InvQueue(p) ==
    /\ inv[p].pc = "queue"
    /\ \E res \in PostOutcomes :
         LET payload == [prompt |-> inv[p].modified_workflow] IN
         IF res.exc # ""
         THEN /\ inv' = [inv EXCEPT ![p] =
                            [@ EXCEPT !.pc = "done", !.posted = Append(@, payload),
                                      !.outcome = Returned([status |-> "error",
                                          message |-> Message("Error queuing workflow: ", res.exc)])]]
              /\ UNCHANGED server
         ELSE /\ res.prompt_id = FreshId
              /\ server' = Append(server, [prompt_id |-> res.prompt_id, prompt |-> payload.prompt,
                                           by |-> p])
              /\ inv' = [inv EXCEPT ![p] =
                            [@ EXCEPT !.pc = "poll", !.posted = Append(@, payload),
                                      !.prompt_id = res.prompt_id, !.current_retry = 0]]
    /\ UNCHANGED <<template_file, SingleVars>>

\* handler lines 235-242, 246-247 in invocation p
InvPoll(p) ==
    /\ inv[p].pc = "poll"
    /\ PollLoopContinues(inv[p].current_retry)
    /\ \E res \in {HistoryAnswer(inv[p].prompt_id, h) : h \in HistoryOutcomes} :
         inv' = [inv EXCEPT ![p] =
                    IF res.exc # ""
                    THEN [@ EXCEPT !.pc = "done", !.queried = @ \cup {inv[p].prompt_id},
                                   !.current_retry = 0,
                                   !.outcome = Returned([status |-> "error",
                                       message |-> Message("Error waiting for image generation: ", res.exc)])]
                    ELSE IF res.ready
                    THEN [@ EXCEPT !.pc = "process", !.queried = @ \cup {inv[p].prompt_id},
                                   !.current_retry = 0, !.outputs = res.outputs]
                    ELSE [@ EXCEPT !.queried = @ \cup {inv[p].prompt_id},
                                   !.current_retry = @ + 1]]
    /\ UNCHANGED <<template_file, server, SingleVars>>

\* handler lines 244-245 in invocation p
InvPollExhausted(p) ==
    /\ inv[p].pc = "poll"
    /\ ~PollLoopContinues(inv[p].current_retry)
    /\ inv' = [inv EXCEPT ![p] =
                  [@ EXCEPT !.pc = "done", !.current_retry = 0,
                            !.outcome = Returned([status |-> "error",
                                message |-> Message("Exceeded the maximum number of retries.", "")])]]
    /\ UNCHANGED <<template_file, server, SingleVars>>

\* handler line 249, process_output_images lines 57-69, 82-84 in invocation p
InvResolve(p) ==
    /\ inv[p].pc = "process"
    /\ \E exists \in BOOLEAN :
         inv' = [inv EXCEPT ![p] =
                    IF exists
                    THEN [@ EXCEPT !.pc = "upload",
                                   !.local_images_path = local_images_path(inv[p].outputs)]
                    ELSE [@ EXCEPT !.pc = "done",
                                   !.local_images_path = local_images_path(inv[p].outputs),
                                   !.outcome = Returned(job_results(
                                       [status |-> "error",
                                        message |-> Message("The image does not exist in the output folder at: ",
                                                            local_images_path(inv[p].outputs))]))]]
    /\ UNCHANGED <<template_file, server, SingleVars>>

\* process_output_images lines 70-80, handler lines 251-256 in invocation p
InvUpload(p) ==
    /\ inv[p].pc = "upload"
    /\ \E exc \in {"", "HfHubHTTPError"} :
         inv' = [inv EXCEPT ![p] =
                    [@ EXCEPT !.pc = "done",
                              !.outcome = Returned(job_results(
                                  IF exc = ""
                                  THEN [status |-> "success",
                                        message |-> Message("Successfully uploaded output to HuggingFace.", "")]
                                  ELSE [status |-> "error",
                                        message |-> Message("Error uploading to HF: ", exc)]))]]
    /\ UNCHANGED <<template_file, server, SingleVars>>

NextConcurrent ==
    \E p \in Jobs :
        \/ InvValidate(p)
        \/ InvCheckServerAttempt(p)
        \/ InvCheckServerExhausted(p)
        \/ InvMutate(p)
        \/ InvQueue(p)
        \/ InvPoll(p)
        \/ InvPollExhausted(p)
        \/ InvResolve(p)
        \/ InvUpload(p)

SpecConcurrent == InitConcurrent /\ [][NextConcurrent]_vars

\* ------------------------------------------------------------------- claims
ResultHas(key) == outcome.state = "returned" /\ key \in DOMAIN outcome.result
ReturnedStatus(st) == ResultHas("status") /\ outcome.result.status = st
ReturnedMessage(text) == ResultHas("message") /\ outcome.result.message[1] = text
NoDownstreamCall == calls = NoCalls /\ ~cs.active /\ ~proc.active

\* C1: in the polling loop a response without the job's prompt_id, or with
\* missing or empty outputs, is an unsuccessful attempt that is counted and
\* followed by another query; the first response that has the prompt_id with
\* non-empty outputs, at attempt k <= COMFY_API_MAX_ATTEMPTS, ends the loop
\* after exactly k queries, and process_output_images receives the outputs
\* of that response.
C1_PollStopsAtFirstOutputs ==
    [][ /\ (pc = "poll" /\ calls'.history = calls.history + 1 /\ outcome'.state = "running") =>
             /\ calls.history = current_retry
             /\ calls'.history <= COMFY_API_MAX_ATTEMPTS
             /\ IF /\ history'.id = prompt_id
                   /\ history'.outputs.present
                   /\ history'.outputs.nodes # <<>>
                THEN pc' = "process" /\ current_retry' = current_retry
                ELSE pc' = "poll" /\ current_retry' = current_retry + 1
        /\ (pc = "process" /\ proc'.active) =>
             /\ calls'.history = current_retry + 1
             /\ history' = history
             /\ proc'.outputs = history.outputs
      ]_vars

\* outputs first appear at the last allowed attempt and are passed on
C1_Witness ==
    /\ proc.active
    /\ calls.history = COMFY_API_MAX_ATTEMPTS
    /\ proc.outputs = history.outputs

\* C2: while no history response has shown non-empty outputs for the job's
\* prompt_id and no query has raised, handler keeps querying until it has
\* made exactly COMFY_API_MAX_ATTEMPTS queries, and then returns status
\* "error" with the message "Exceeded the maximum number of retries."
\* without resolving outputs or uploading.
C2_PollingExhausted ==
    [][ /\ (pc = "poll" /\ calls.history < COMFY_API_MAX_ATTEMPTS) =>
             calls'.history = calls.history + 1
        /\ (pc = "poll" /\ calls.history >= COMFY_API_MAX_ATTEMPTS) =>
             /\ calls.history = COMFY_API_MAX_ATTEMPTS
             /\ outcome'.state = "returned"
             /\ DOMAIN outcome'.result = {"status", "message"}
             /\ outcome'.result.status = "error"
             /\ outcome'.result.message[1] = "Exceeded the maximum number of retries."
             /\ calls' = calls
             /\ calls.resolve = 0 /\ calls.exists = 0 /\ calls.upload = 0
             /\ pc' = "done"
      ]_vars

\* the polling budget was used up and the exhausted result returned
C2_Witness ==
    /\ ReturnedStatus("error")
    /\ ReturnedMessage("Exceeded the maximum number of retries.")
    /\ calls.history = COMFY_API_MAX_ATTEMPTS
    /\ calls.upload = 0

\* C3: every stage failure ends the invocation with a returned result that
\* has status "error" and a message; no exception escapes handler.
C3_EveryFailureCaught ==
    (pc = "done" /\ ~ReturnedStatus("success")) =>
        /\ outcome.state = "returned"
        /\ ReturnedStatus("error")
        /\ ResultHas("message")

\* C4: every value handler returns carries a status field equal to
\* "success" or "error" together with a message field.
C4_ResultIsStructured ==
    outcome.state = "returned" =>
        /\ ResultHas("status")
        /\ outcome.result.status \in {"success", "error"}
        /\ ResultHas("message")

\* a mapping (given directly or as JSON text) that lacks a required key
RequiredFieldAbsent(j) ==
    /\ j.type = "dict" \/ (j.type = "str" /\ j.wellformed /\ j.json = "map")
    /\ j.hf_lora = "absent" \/ j.hyperparams.p = "absent"

\* C5: for a job input in which hf_lora or hyperparams is absent, the
\* validator returns the missing-field error and handler returns it without
\* invoking any downstream component.
C5_MissingFieldReported ==
    (pc # "validate" /\ RequiredFieldAbsent(job)) =>
        /\ outcome = Returned([error |-> "Need to provide both hf_lora and hyperparams in the request."])
        /\ NoDownstreamCall

\* C6: for a string job input that does not parse as the expected
\* structured format (a JSON object), the validator returns the error
\* "Job input is not valid JSON." as a value and handler invokes no
\* downstream component.
C6_MalformedStringReported ==
    (pc # "validate" /\ job.type = "str" /\ ~(job.wellformed /\ job.json = "map")) =>
        /\ outcome = Returned([error |-> "Job input is not valid JSON."])
        /\ NoDownstreamCall

StageRank(p) ==
    CASE p = "validate" -> 0
      [] p = "check_server" -> 1
      [] p = "mutate" -> 2
      [] p = "queue" -> 3
      [] p = "poll" -> 4
      [] p = "process" -> 5
      [] p = "upload" -> 6
      [] p = "done" -> 7

\* C7: within one invocation the stages occur only in the order validate,
\* probe, mutate, submit, poll, resolve, publish: each external call is made
\* only after the preceding stage has completed and before any call of a
\* later stage, and once handler has failed (returned or raised) no further
\* call is made.
C7_StagesInOrder ==
    [][ /\ StageRank(pc') >= StageRank(pc)
        /\ cs'.gets > cs.gets =>
             /\ validated_data # EmptyDict
             /\ calls.load = 0 /\ calls.post = 0 /\ calls.history = 0
             /\ calls.exists = 0 /\ calls.upload = 0
        /\ calls'.load > calls.load =>
             /\ cs.ret \in {"True", "False"}
             /\ calls.post = 0 /\ calls.history = 0 /\ calls.exists = 0 /\ calls.upload = 0
        /\ calls'.post > calls.post =>
             /\ calls.mutate = 1 /\ modified_workflow # EmptyDict
             /\ calls.history = 0 /\ calls.exists = 0 /\ calls.upload = 0
        /\ calls'.history > calls.history =>
             /\ calls.post = 1 /\ prompt_id \in PromptIds
             /\ calls.exists = 0 /\ calls.upload = 0
        /\ calls'.exists > calls.exists =>
             /\ calls.history >= 1 /\ history.id = prompt_id /\ history.outputs.nodes # <<>>
             /\ calls.upload = 0
        /\ calls'.upload > calls.upload =>
             /\ calls.exists = 1 /\ proc.exists
        /\ outcome.state # "running" =>
             /\ calls' = calls
             /\ cs'.gets = cs.gets
      ]_vars

\* an invocation that went through every stage
C7_Witness ==
    /\ pc = "done"
    /\ calls.probe = 1 /\ calls.load = 1 /\ calls.post = 1
    /\ calls.history > 1 /\ calls.exists = 1 /\ calls.upload = 1

\* C8: each non-looping stage runs at most once per invocation (template
\* mutation, submit POST, output resolution, upload), and an invocation that
\* has reached polling has made exactly one submit POST.
C8_StagesRunOnce ==
    /\ calls.load <= 1 /\ calls.mutate <= 1
    /\ calls.post <= 1 /\ Len(calls.posted) = calls.post
    /\ calls.resolve <= 1 /\ calls.exists <= 1
    /\ calls.upload <= 1 /\ Len(calls.uploaded) = calls.upload
    /\ (pc \in {"poll", "process", "upload"} \/ calls.history > 0) => calls.post = 1

\* polling went on to the last attempt after the single POST
C8_Witness ==
    /\ pc = "poll"
    /\ calls.history = COMFY_API_MAX_ATTEMPTS
    /\ calls.post = 1

\* C9: a result with status "success" is returned only when the poller saw
\* outputs, the resolved file existed and the upload raised nothing; the
\* result has refresh_worker true and exactly one upload call was made, of
\* the resolved file and keyed by that file's own name.
C9_SuccessOnlyAfterUpload ==
    ReturnedStatus("success") =>
        /\ calls.history >= 1
        /\ history.id = prompt_id /\ history.outputs.present /\ history.outputs.nodes # <<>>
        /\ proc.active /\ proc.exists
        /\ proc.local_images_path = local_images_path(history.outputs)
        /\ calls.upload_exc = ""
        /\ ResultHas("refresh_worker") /\ outcome.result.refresh_worker = TRUE
        /\ calls.upload = 1 /\ Len(calls.uploaded) = 1
        /\ calls.uploaded[1].path_or_fileobj = proc.local_images_path
        /\ calls.uploaded[1].path_in_repo = proc.local_images_path[Len(proc.local_images_path)]
        /\ calls.uploaded[1].repo_id = HF_REPO_UPLOAD

\* a success whose file lies in a subfolder of the output directory
C9_Witness ==
    /\ ReturnedStatus("success")
    /\ Len(proc.local_images_path) = Len(COMFY_OUTPUT_PATH) + 2
    /\ calls.uploaded[1].path_in_repo = "img2.png"

\* C10: check_server makes at most `attempts` GETs, one after the other; a
\* response with status 200 makes it return True at once, with no further
\* GET and no sleep; a RequestException or another status is a failed
\* attempt that is followed by a sleep and raises nothing; when every
\* attempt has failed it returns False after exactly `attempts` GETs.
C10_CheckServer ==
    [][ /\ pc = "check_server" =>
             /\ cs.gets = cs.i /\ cs.sleeps = cs.i /\ cs.ret = "none"
             /\ cs'.gets <= cs.attempts
             /\ outcome'.state = "running"
             /\ IF cs'.gets = cs.gets + 1
                THEN IF cs'.server_res.exc = "" /\ cs'.server_res.status_code = 200
                     THEN cs'.ret = "True" /\ cs'.sleeps = cs.sleeps /\ pc' # "check_server"
                     ELSE cs'.ret = "none" /\ cs'.sleeps = cs.sleeps + 1 /\ pc' = "check_server"
                ELSE /\ cs'.gets = cs.gets /\ cs.gets = cs.attempts
                     /\ cs'.ret = "False" /\ cs'.sleeps = cs.sleeps /\ pc' # "check_server"
        /\ cs.ret # "none" => ~(cs'.gets > cs.gets) /\ ~(cs'.sleeps > cs.sleeps)
      ]_vars

\* the server answers 200 only at the last of several attempts
C10_Witness ==
    /\ cs.ret = "True"
    /\ cs.attempts = MaxProbeAttempts
    /\ cs.gets = cs.attempts
    /\ cs.sleeps = cs.attempts - 1

\* C11: the result of the readiness probe does not gate the job.  When
\* check_server has returned (True or False) handler calls mutate_workflow;
\* what it does next (raise, or go on to submit the mutated workflow) is
\* fixed by the validated input and the template alone, the frame of
\* check_server is gone afterwards, and the workflow is then submitted, so
\* that the later stages and the result are those of a run whose probe
\* returned True under the same later responses.
C11_ProbeDoesNotGate ==
    [][ /\ pc = "mutate" =>
             /\ cs.ret \in {"True", "False"}
             /\ calls'.mutate = calls.mutate + 1
             /\ cs' = NoFrame
             /\ LET raises == \/ ~template_file.readable
                              \/ "25" \notin DOMAIN template_file.doc
                              \/ "noise_seed" \notin DOMAIN template_file.doc["25"].inputs
                              \/ ~validated_data.hyperparams.has_seed
                IN IF raises
                   THEN pc' = "done" /\ outcome'.state = "raised"
                   ELSE /\ pc' = "queue" /\ outcome' = outcome
                        /\ modified_workflow'["25"].inputs.noise_seed
                              = validated_data.hyperparams.noise_seed
        /\ pc = "queue" => calls'.post = calls.post + 1
        /\ pc \in {"queue", "poll", "process", "upload"} => cs = NoFrame /\ cs' = NoFrame
      ]_vars

\* a job that succeeded although the probe had used up its attempts
C11_Witness ==
    /\ calls.probe_ret = "False"
    /\ calls.post = 1
    /\ ReturnedStatus("success")

\* C12: when the submit POST fails (transport failure, response that is not
\* well-formed, response without prompt_id) handler returns a result with
\* status "error" after exactly one POST, with no history query and no
\* upload call.
C12_SubmitFailureNotRetried ==
    (calls.post > 0 /\ calls.post_exc # "") =>
        /\ pc = "done"
        /\ ReturnedStatus("error")
        /\ outcome.result.message = Message("Error queuing workflow: ", calls.post_exc)
        /\ calls.post = 1 /\ Len(calls.posted) = 1
        /\ calls.history = 0 /\ calls.queried = {}
        /\ calls.upload = 0

\* the server answered the POST without a prompt_id
C12_Witness ==
    /\ calls.post = 1
    /\ calls.post_exc = "KeyError"
    /\ ReturnedStatus("error")

\* C13: when the history query raises on poll attempt j, the failure is not
\* retried: handler returns a result with status "error" after exactly j
\* queries, whose message is not the one of the exhausted polling budget,
\* and neither resolves outputs nor uploads.
C13_HistoryFailurePropagated ==
    calls.history_exc # "" =>
        /\ pc = "done"
        /\ ReturnedStatus("error")
        /\ outcome.result.message
             = Message("Error waiting for image generation: ", calls.history_exc)
        /\ ~ReturnedMessage("Exceeded the maximum number of retries.")
        /\ calls.history = current_retry + 1
        /\ calls.history <= COMFY_API_MAX_ATTEMPTS
        /\ calls.resolve = 0 /\ calls.exists = 0 /\ calls.upload = 0

\* the query raises at the last allowed attempt
C13_Witness ==
    /\ calls.history_exc = "RequestException"
    /\ calls.history = COMFY_API_MAX_ATTEMPTS
    /\ ReturnedStatus("error")

\* C14: when the path resolved from the completed outputs does not exist on
\* disk, no upload call is made, the result has status "error" with the
\* message "The image does not exist in the output folder at: <path>", and
\* the outputs are resolved and the path tested only once.
C14_MissingArtifact ==
    (proc.active /\ ~proc.exists) =>
        /\ pc = "done"
        /\ ReturnedStatus("error")
        /\ outcome.result.message
             = Message("The image does not exist in the output folder at: ",
                       proc.local_images_path)
        /\ calls.upload = 0 /\ calls.uploaded = <<>>
        /\ calls.resolve = 1 /\ calls.exists = 1

\* the image named by the outputs is not in the output folder
C14_Witness ==
    /\ proc.active /\ ~proc.exists
    /\ proc.local_images_path = COMFY_OUTPUT_PATH \o <<"img1.png">>
    /\ ReturnedStatus("error")

RECURSIVE AllImageEntries(_)
\* the image entries of an outputs mapping, node after node in enumeration
\* order and each node's images in list order
AllImageEntries(nodes) ==
    IF nodes = <<>> THEN <<>>
    ELSE (IF Head(nodes).has_images THEN Head(nodes).images ELSE <<>>)
         \o AllImageEntries(Tail(nodes))

\* C15: for an outputs mapping that contains image entries, the path that
\* process_output_images resolves is subfolder/filename of the last image
\* entry met when scanning the nodes in enumeration order and each node's
\* images in list order, whatever the number of nodes and images; no earlier
\* entry has a say.
C15_LastImageWins ==
    (proc.active /\ AllImageEntries(proc.outputs.nodes) # <<>>) =>
        LET entries == AllImageEntries(proc.outputs.nodes)
            last == entries[Len(entries)]
        IN proc.local_images_path
             = COMFY_OUTPUT_PATH \o PathOf(last.subfolder) \o <<last.filename>>

\* every node has the most images and the first entry differs from the last
C15_Witness ==
    /\ proc.active
    /\ Len(proc.outputs.nodes) = MaxNodes
    /\ Len(AllImageEntries(proc.outputs.nodes)) = MaxNodes * MaxImages
    /\ AllImageEntries(proc.outputs.nodes)[1]
         # AllImageEntries(proc.outputs.nodes)[MaxNodes * MaxImages]
    /\ Head(proc.outputs.nodes).images[1] # Head(proc.outputs.nodes).images[MaxImages]

\* C16: for a template that has the seed path and any noise_seed, the
\* document mutate_workflow returns has the seed field equal to the supplied
\* value, the same nodes and the same inputs of every node as the template,
\* every other input equal to the template's, and the template on disk is
\* left as it was.
C16_MutateOnlySeed ==
    [][ (/\ pc = "mutate"
         /\ template_file.readable
         /\ "25" \in DOMAIN template_file.doc
         /\ "noise_seed" \in DOMAIN template_file.doc["25"].inputs
         /\ validated_data.hyperparams.has_seed) =>
            /\ pc' = "queue"
            /\ template_file' = template_file
            /\ modified_workflow'["25"].inputs.noise_seed = validated_data.hyperparams.noise_seed
            /\ DOMAIN modified_workflow' = DOMAIN template_file.doc
            /\ \A n \in DOMAIN template_file.doc :
                 /\ DOMAIN modified_workflow'[n] = DOMAIN template_file.doc[n]
                 /\ DOMAIN modified_workflow'[n].inputs = DOMAIN template_file.doc[n].inputs
                 /\ \A f \in DOMAIN template_file.doc[n].inputs :
                      (n # "25" \/ f # "noise_seed") =>
                          modified_workflow'[n].inputs[f] = template_file.doc[n].inputs[f]
      ]_vars

\* a template with other nodes and other inputs whose seed was replaced
C16_Witness ==
    /\ pc = "queue"
    /\ DOMAIN modified_workflow = {"25", "6", "10"}
    /\ DOMAIN modified_workflow["25"].inputs = {"noise_seed", "cfg", "denoise"}
    /\ modified_workflow["25"].inputs.noise_seed # template_file.doc["25"].inputs.noise_seed

\* the prompt ids the server returned to invocation p
IdsReturnedTo(p) == {server[k].prompt_id : k \in {j \in 1..Len(server) : server[j].by = p}}

\* C17: in every interleaving of two concurrent invocations with different
\* noise seeds, the payload each one submits carries its own seed and not
\* the other's, each one queries the history only of the prompt_id its own
\* submission returned, and no state written by one is read by the other:
\* a step changes the locals of one invocation only and never the template
\* on disk that both read.
C17_InvocationsIsolated ==
    [][ /\ template_file' = template_file
        /\ \E p \in Jobs : \A q \in Jobs \ {p} : inv'[q] = inv[q]
        /\ \A p \in Jobs : \A q \in Jobs \ {p} :
             /\ \A k \in 1..Len(inv'[p].posted) :
                  /\ inv'[p].posted[k].prompt["25"].inputs.noise_seed
                       = inv'[p].job.hyperparams.noise_seed
                  /\ inv'[p].posted[k].prompt["25"].inputs.noise_seed
                       # inv'[q].job.hyperparams.noise_seed
             /\ inv'[p].queried \subseteq IdsReturnedTo(p)'
             /\ inv'[p].queried \cap IdsReturnedTo(q)' = {}
             /\ inv'[p].prompt_id # "none" => inv'[p].prompt_id # inv'[q].prompt_id
      ]_vars

\* both invocations submitted, polled and finished with a success
C17_Witness ==
    /\ Len(server) = 2
    /\ \A p \in Jobs :
         /\ inv[p].pc = "done"
         /\ inv[p].queried = {inv[p].prompt_id}
         /\ inv[p].outcome.state = "returned"
         /\ inv[p].outcome.result.status = "success"

\* C18: provided every external call returns or raises, every invocation of
\* handler terminates, in a returned result (success or error, the exhausted
\* polling budget included) or in an exception that escapes, having made at
\* most COMFY_API_MAX_ATTEMPTS probe GETs, one submit POST,
\* COMFY_API_MAX_ATTEMPTS history queries and one upload.
C18_Terminates ==
    /\ <>(pc = "done" /\ outcome.state \in {"returned", "raised"})
    /\ [](/\ cs.gets <= COMFY_API_MAX_ATTEMPTS
          /\ calls.post <= 1
          /\ calls.history <= COMFY_API_MAX_ATTEMPTS
          /\ calls.upload <= 1)

\* a success after every probe but the last and every poll but the last failed
C18_Witness ==
    /\ pc = "done"
    /\ calls.probe_ret = "False"
    /\ calls.history = COMFY_API_MAX_ATTEMPTS
    /\ calls.upload = 1

\* C19: an upload is attempted only for a path built from an image entry of
\* the completed outputs: when the non-empty outputs mapping has no image
\* entry in any node, handler makes no upload call and returns a result
\* with status "error".
C19_UploadOnlyForImage ==
    (proc.active /\ AllImageEntries(proc.outputs.nodes) = <<>>) =>
        /\ calls.upload = 0
        /\ calls.uploaded = <<>>
        /\ pc = "done" => ReturnedStatus("error")

\* C20: a result returned by handler has refresh_worker, equal to true,
\* exactly when the job got past polling (outputs were observed and
\* process_output_images was called), whether the resolution and the upload
\* then succeeded or failed; the results of a validation failure, a
\* submission failure, a history-query failure and an exhausted polling
\* budget have no refresh_worker field.
C20_RefreshWorker ==
    outcome.state = "returned" =>
        /\ ResultHas("refresh_worker") <=> (proc.active /\ calls.history >= 1
                                             /\ history.id = prompt_id
                                             /\ history.outputs.nodes # <<>>)
        /\ ResultHas("refresh_worker") => outcome.result.refresh_worker = TRUE
        /\ (\/ calls.post = 0
            \/ calls.post_exc # ""
            \/ calls.history_exc # ""
            \/ ReturnedMessage("Exceeded the maximum number of retries."))
             => ~ResultHas("refresh_worker")

\* the upload failed and the error result still asks for a worker refresh
C20_Witness ==
    /\ ReturnedStatus("error")
    /\ calls.upload_exc # ""
    /\ ResultHas("refresh_worker")
    /\ outcome.result.refresh_worker = TRUE

====
